---- MODULE Spec2Model ----
(***************************************************************************)
(* PlaylistManager (src/playlist/playlistmanager.cpp): the coordinator     *)
(* that owns the map of playlists, the current and active cursors and the  *)
(* selection used for the summary text.                                    *)
(*                                                                         *)
(* Every public member function is one action; it runs to completion (the  *)
(* manager lives on one thread) and includes the calls it makes.  `log' is *)
(* the ordered list of the side effects of the last operation (signals     *)
(* emitted, calls made into the backend and into a playlist), `op' is the  *)
(* call that produced it.                                                  *)
(***************************************************************************)
EXTENDS Integers, Sequences, FiniteSets, TLC

VARIABLES pc, playlists_, current_, active_, current_selection_,
          backend, files, log, op

vars == <<pc, playlists_, current_, active_, current_selection_,
          backend, files, log, op>>

(***************************************************************************)
(* Bounds of the model.                                                    *)
(***************************************************************************)
\* ids the backend can hand out: 1..MaxId
MaxId == 3
\* rows a playlist holds at most in Spec
MaxLen == 1
\* rows of the playlist in SummarySpec
MaxRows == 5

\* current_ and active_ before the first playlist is added
NoId == -1

Ids == 1 .. MaxId

(***************************************************************************)
(* Songs, playlist items, names and file names.                            *)
(***************************************************************************)
\* Song::length(): -1 is a song whose length was never read
Lengths == {-1, 0, 40, 65}

Song(id, length) == [id |-> id, length |-> length]

\* lib: the item is a LibraryPlaylistItem (it references a song of the library)
Item(lib, song) == [lib |-> lib, song |-> song]

\* A name is the list of its dot-separated parts: "a.b" is <<"a", "b">>.
DefaultName == <<"Playlist">>

\* A file name is the list of the dot-separated parts of its last path
\* component: "a.b.m3u" is <<"a", "b", "m3u">>.
Filenames == { <<"a", "b", "m3u">> }

\* QFileInfo::baseName(): the file name up to the first dot
baseName(filename) == <<Head(filename)>>

\* QFileInfo::completeBaseName(): the file name up to the last dot
completeBaseName(filename) ==
  IF Len(filename) = 1 THEN filename ELSE SubSeq(filename, 1, Len(filename) - 1)

(***************************************************************************)
(* Helpers on sequences and sets.                                          *)
(***************************************************************************)
RECURSIVE SumSeq(_)
SumSeq(s) == IF s = <<>> THEN 0 ELSE Head(s) + SumSeq(Tail(s))

Min(S) == CHOOSE x \in S : \A y \in S : x <= y

\* The elements of a set of integers, ascending: the order in which a QMap
\* is iterated.
RECURSIVE Ascending(_)
Ascending(S) == IF S = {} THEN <<>> ELSE <<Min(S)>> \o Ascending(S \ {Min(S)})


MaxKey(S) == CHOOSE x \in S : \A y \in S : y <= x

(***************************************************************************)
(* The Playlist object, as far as the manager uses it.                     *)
(***************************************************************************)
\* new Playlist(backend, id): the rows of the playlist as the backend stored
\* them, nothing playing
NewPlaylist(be, id) ==
  [items |-> IF id \in DOMAIN be.items THEN be.items[id] ELSE <<>>,
   current_index |-> -1]

Data(p, name) == [p |-> p, name |-> name]

rowCount(p) == Len(p.items)

\* Playlist::GetAllSongs(): the metadata of every row, in order
GetAllSongs(p) == [i \in 1 .. Len(p.items) |-> p.items[i].song]

\* Playlist::InsertSongs(songs): one row per song, appended in order; a song
\* that comes from a file is no library item
InsertSongs(p, songs) ==
  [p EXCEPT !.items = @ \o [i \in 1 .. Len(songs) |-> Item(FALSE, songs[i])]]

\* Playlist::GetTotalLength(): rows without a length count as zero
GetTotalLength(p) ==
  SumSeq([i \in 1 .. Len(p.items) |->
            IF p.items[i].song.length > 0 THEN p.items[i].song.length ELSE 0])

\* Playlist::library_items_by_id(id): the rows that are library items of song id
library_items_by_id(p, id) ==
  { i \in 1 .. Len(p.items) : p.items[i].lib /\ p.items[i].song.id = id }

\* LibraryPlaylistItem::SetMetadata(song) on the rows `rows'
SetMetadata(p, rows, song) ==
  [p EXCEPT !.items = [i \in 1 .. Len(p.items) |->
                         IF i \in rows THEN [p.items[i] EXCEPT !.song = song]
                         ELSE p.items[i]]]

(***************************************************************************)
(* The selection: a list of ranges, each holding persistent indexes into   *)
(* the model it was made on.  Qt invalidates the persistent indexes of     *)
(* rows that are removed and of a model that is destroyed: the range then  *)
(* reports top() = bottom() = -1 and model() = NULL.                       *)
(***************************************************************************)
Range(model, top, bottom) == [model |-> model, top |-> top, bottom |-> bottom]

InvalidRange == Range(NoId, -1, -1)

Invalidate(selection, model) ==
  [i \in 1 .. Len(selection) |->
     IF selection[i].model = model THEN InvalidRange ELSE selection[i]]

(***************************************************************************)
(* The manager's members as one record m, so that a member function that   *)
(* calls another is the composition of the two:                            *)
(*   pc   "ready", or "fatal" after qFatal, or "crashed" after a call      *)
(*        through a NULL pointer                                           *)
(*   pl   playlists_      cur  current_      act  active_                  *)
(*   sel  current_selection_                                               *)
(*   be   the PlaylistBackend      files  the files the parser reads       *)
(*   log  the side effects so far                                          *)
(***************************************************************************)
\* What a slot connected to a signal can read from the manager and the
\* backend at the moment the signal is emitted.
Observed(m) ==
  [current |-> m.cur,
   active |-> m.act,
   ids |-> DOMAIN m.pl,
   names |-> [id \in DOMAIN m.pl |-> m.pl[id].name],
   backend_names |-> m.be.names,
   current_index |-> [id \in DOMAIN m.pl |-> m.pl[id].p.current_index],
   length |-> [id \in DOMAIN m.pl |->
                 [i \in 1 .. Len(m.pl[id].p.items) |-> m.pl[id].p.items[i].song.length]],
   selection |-> m.sel]

\* emit a signal, or a call into the backend or into a playlist
Emit(m, ev, arg) ==
  [m EXCEPT !.log = Append(@, [ev |-> ev, arg |-> arg, at |-> Observed(m)])]

\* a member call through a NULL pointer: the process dies of a segmentation
\* fault
Crash(m) == [m EXCEPT !.pc = "crashed"]

\* playlists_.contains(id); playlist(id), current() and active() are
\* playlists_[id].p, which is NULL for an id that is no key
contains(pl, id) == id \in DOMAIN pl

(***************************************************************************)
(* UpdateSummaryText                                                       *)
(***************************************************************************)
\* range.model()->index(i, Playlist::Column_Length).data().toInt()
RowLength(pl, range, i) == pl[range.model].p.items[i + 1].song.length

\* selected += range.bottom() - range.top() + 1, over the ranges
SelectedCount(selection) ==
  SumSeq([k \in 1 .. Len(selection) |-> selection[k].bottom - selection[k].top + 1])

\* if (length > 0) seconds += length, over the rows of one range
RECURSIVE RangeSeconds(_, _, _)
RangeSeconds(pl, range, i) ==
  IF i > range.bottom THEN 0
  ELSE (IF RowLength(pl, range, i) > 0 THEN RowLength(pl, range, i) ELSE 0)
       + RangeSeconds(pl, range, i + 1)

SelectedSeconds(pl, selection) ==
  SumSeq([k \in 1 .. Len(selection) |-> RangeSeconds(pl, selection[k], selection[k].top)])

\* the test, were it selected > 0
SummarySeconds_AnySelected(selected, selected_seconds, total) ==
  IF selected > 0 THEN selected_seconds ELSE total

\* if (selected > 1) ... else seconds = current()->GetTotalLength()
SummarySeconds(selected, selected_seconds, total) ==
  IF selected > 1 THEN selected_seconds ELSE total

\* the text, were "selected of" written for one selected row too
SummaryText_SelectedOfOne(selected, tracks, seconds) ==
  [selected_of |-> IF selected > 0 THEN <<selected>> ELSE <<>>,
   tracks |-> IF tracks = 1 THEN <<1, "track">> ELSE <<tracks, "tracks">>,
   duration |-> IF seconds # 0 THEN <<seconds>> ELSE <<>>]

\* The text: its three clauses; a clause that is left out is <<>>.
\* Utilities::WordyTime(seconds) is kept as the number of seconds.
SummaryText(selected, tracks, seconds) ==
  [selected_of |-> IF selected > 1 THEN <<selected>> ELSE <<>>,
   tracks |-> IF tracks = 1 THEN <<1, "track">> ELSE <<tracks, "tracks">>,
   duration |-> IF seconds # 0 THEN <<seconds>> ELSE <<>>]

UpdateSummaryText(m) ==
  IF m.pc # "ready" THEN m
  ELSE IF ~contains(m.pl, m.cur) THEN Crash(m)      \* current() is NULL
  ELSE IF \E k \in 1 .. Len(m.sel) : m.sel[k].model = NoId
       THEN Crash(m)                                \* range.model() is NULL
  ELSE LET tracks == rowCount(m.pl[m.cur].p)
           selected == SelectedCount(m.sel)
           seconds == SummarySeconds(selected, SelectedSeconds(m.pl, m.sel),
                                     GetTotalLength(m.pl[m.cur].p))
       IN Emit(m, "SummaryTextChanged", SummaryText(selected, tracks, seconds))

(***************************************************************************)
(* SetCurrentPlaylist, SetActivePlaylist, AddPlaylist, New                 *)
(***************************************************************************)
SetCurrentPlaylist(m, id) ==
  IF m.pc # "ready" THEN m
  ELSE UpdateSummaryText(Emit([m EXCEPT !.cur = id], "CurrentChanged", id))

\* the test, were it active_ != -1 alone
UnsetsOldActive_Always(act, id) == act # NoId

\* if (active_ != -1 && active_ != id)
UnsetsOldActive(act, id) == act # NoId /\ act # id

\* active()->set_current_index(-1)
UnsetOldActive(m) ==
  IF ~contains(m.pl, m.act) THEN Crash(m)           \* active() is NULL
  ELSE Emit([m EXCEPT !.pl[m.act].p.current_index = -1],
            "set_current_index", <<m.act, -1>>)

\* SetActivePlaylist, were it to assign active_ before it unsets the
\* playing row of active()
SetActivePlaylist_AssignFirst(m, id) ==
  IF m.pc # "ready" THEN m
  ELSE LET m0 == [m EXCEPT !.act = id]
           m1 == IF UnsetsOldActive(m.act, id) THEN UnsetOldActive(m0) ELSE m0
       IN IF m1.pc # "ready" THEN m1 ELSE Emit(m1, "ActiveChanged", id)

SetActivePlaylist(m, id) ==
  IF m.pc # "ready" THEN m
  ELSE LET m1 == IF UnsetsOldActive(m.act, id) THEN UnsetOldActive(m) ELSE m
       IN IF m1.pc # "ready" THEN m1
          ELSE Emit([m1 EXCEPT !.act = id], "ActiveChanged", id)

\* AddPlaylist, were it to set the cursors whatever they are
AddPlaylist_MovesCursors(m, id, name) ==
  IF m.pc # "ready" THEN m
  ELSE LET m1 == Emit([m EXCEPT !.pl = (id :> Data(NewPlaylist(m.be, id), name)) @@ @],
                      "PlaylistAdded", <<id, name>>)
       IN SetActivePlaylist(SetCurrentPlaylist(m1, id), id)

AddPlaylist(m, id, name) ==
  IF m.pc # "ready" THEN m
  ELSE LET m1 == Emit([m EXCEPT !.pl = (id :> Data(NewPlaylist(m.be, id), name)) @@ @],
                      "PlaylistAdded", <<id, name>>)
           m2 == IF m1.cur = NoId THEN SetCurrentPlaylist(m1, id) ELSE m1
       IN IF m2.act = NoId THEN SetActivePlaylist(m2, id) ELSE m2

\* The slots connected to a playlist's PlaylistChanged(), in the order
\* AddPlaylist connects them: the manager's own signal, then
\* UpdateSummaryText.
OnPlaylistChanged(m) ==
  IF m.pc # "ready" THEN m
  ELSE UpdateSummaryText(Emit(m, "PlaylistChanged", <<>>))

\* playlist_backend_->CreatePlaylist(name) when it returns id
CreatePlaylist(m, name, id) ==
  Emit([m EXCEPT !.be.names = (id :> name) @@ @, !.be.items = (id :> <<>>) @@ @],
       "CreatePlaylist", name)

\* New, were it to return when CreatePlaylist gives -1
New_ReturnsOnFailure(m, name, songs, id) ==
  IF m.pc # "ready" THEN m
  ELSE IF id = -1 THEN Emit(m, "CreatePlaylist", name)
  ELSE LET m1 == AddPlaylist(CreatePlaylist(m, name, id), id, name)
           m2 == IF m1.pc # "ready" THEN m1
                 ELSE LET m1a == [m1 EXCEPT !.pl[id].p = InsertSongs(@, songs)]
                      IN IF songs # <<>> THEN OnPlaylistChanged(m1a) ELSE m1a
       IN SetCurrentPlaylist(m2, id)

\* New, were the call of SetCurrentPlaylist at its end left out
New_NoSetCurrent(m, name, songs, id) ==
  IF m.pc # "ready" THEN m
  ELSE IF id = -1 THEN [Emit(m, "CreatePlaylist", name) EXCEPT !.pc = "fatal"]
  ELSE LET m1 == AddPlaylist(CreatePlaylist(m, name, id), id, name)
       IN IF m1.pc # "ready" THEN m1
          ELSE LET m1a == [m1 EXCEPT !.pl[id].p = InsertSongs(@, songs)]
               IN IF songs # <<>> THEN OnPlaylistChanged(m1a) ELSE m1a

\* id is what CreatePlaylist returns: a fresh id, or -1
New(m, name, songs, id) ==
  IF m.pc # "ready" THEN m
  ELSE IF id = -1 THEN [Emit(m, "CreatePlaylist", name) EXCEPT !.pc = "fatal"]
  ELSE LET m1 == AddPlaylist(CreatePlaylist(m, name, id), id, name)
           m2 == IF m1.pc # "ready" THEN m1
                 ELSE LET m1a == [m1 EXCEPT !.pl[id].p = InsertSongs(@, songs)]
                      IN IF songs # <<>> THEN OnPlaylistChanged(m1a) ELSE m1a
       IN SetCurrentPlaylist(m2, id)

(***************************************************************************)
(* Load, Save, Rename, Remove                                              *)
(***************************************************************************)
\* parser_->Load(filename) and parser_->Save(songs, filename): the parser
\* writes and reads back the list of songs; a file that is missing or cannot
\* be parsed reads as the empty list
ParserLoad(fs, filename) == fs[filename]

ParserSave(fs, songs, filename) == [fs EXCEPT ![filename] = songs]

\* if (songs.isEmpty())
LoadFails(songs) == songs = <<>>

\* Load, were the return after the Error left out
Load_NoReturn(m, filename, id) ==
  LET songs == ParserLoad(m.files, filename)
      m1 == IF LoadFails(songs) THEN Emit(m, "Error", completeBaseName(filename)) ELSE m
  IN New(m1, baseName(filename), songs, id)

Load(m, filename, id) ==
  LET songs == ParserLoad(m.files, filename)
  IN IF LoadFails(songs) THEN Emit(m, "Error", completeBaseName(filename))
     ELSE New(m, baseName(filename), songs, id)

\* Save, were it to write the current playlist
Save_Current(m, id, filename) ==
  [m EXCEPT !.files = ParserSave(@, GetAllSongs(m.pl[m.cur].p), filename)]

Save(m, id, filename) ==
  [m EXCEPT !.files = ParserSave(@, GetAllSongs(m.pl[id].p), filename)]

\* Rename, were PlaylistRenamed emitted before playlists_ holds the name
Rename_EmitsFirst(m, id, new_name) ==
  LET m1 == Emit([m EXCEPT !.be.names[id] = new_name], "RenamePlaylist", <<id, new_name>>)
      m2 == Emit(m1, "PlaylistRenamed", <<id, new_name>>)
  IN [m2 EXCEPT !.pl[id].name = new_name]

\* playlist_backend_->RenamePlaylist(id, new_name); playlists_[id].name =
\* new_name; emit PlaylistRenamed(id, new_name)
Rename(m, id, new_name) ==
  LET m1 == Emit([m EXCEPT !.be.names[id] = new_name], "RenamePlaylist", <<id, new_name>>)
  IN Emit([m1 EXCEPT !.pl[id].name = new_name], "PlaylistRenamed", <<id, new_name>>)

\* playlist_backend_->RemovePlaylist(id): the row and its items are deleted
RemovePlaylist(m, id) ==
  Emit([m EXCEPT !.be.names = [k \in DOMAIN @ \ {id} |-> @[k]],
                 !.be.items = [k \in DOMAIN @ \ {id} |-> @[k]]],
       "RemovePlaylist", id)

\* the test of the count, were it to let the last playlist go
RemoveRefused_OnlyWhenEmpty(pl) == Cardinality(DOMAIN pl) < 1

\* if (playlists_.count() <= 1) return;
RemoveRefused(pl) == Cardinality(DOMAIN pl) <= 1

\* playlists_.constBegin()->p->id(): the playlist with the smallest key
NextId(pl, id) == Min(DOMAIN pl)

\* playlists_.take(id); delete data.p: destroying the model invalidates the
\* selection ranges that were made on it
TakeAndDelete(m, id) ==
  [m EXCEPT !.pl = [k \in DOMAIN m.pl \ {id} |-> m.pl[k]],
            !.sel = Invalidate(@, id)]

\* Remove, were it to call the backend before it tests the count
Remove_BackendFirst(m, id) ==
  LET m1 == RemovePlaylist(m, id)
  IN IF RemoveRefused(m.pl) THEN m1
     ELSE LET next_id == NextId(m.pl, id)
              m2 == IF id = m1.act THEN SetActivePlaylist(m1, next_id) ELSE m1
              m3 == IF id = m2.cur THEN SetCurrentPlaylist(m2, next_id) ELSE m2
          IN IF m3.pc # "ready" THEN m3
             ELSE Emit(TakeAndDelete(m3, id), "PlaylistRemoved", id)

\* Remove, were it to move the cursors whatever they are
Remove_MovesCursors(m, id) ==
  IF RemoveRefused(m.pl) THEN m
  ELSE LET m1 == RemovePlaylist(m, id)
           next_id == NextId(m.pl, id)
           m3 == SetCurrentPlaylist(SetActivePlaylist(m1, next_id), next_id)
       IN IF m3.pc # "ready" THEN m3
          ELSE Emit(TakeAndDelete(m3, id), "PlaylistRemoved", id)

Remove(m, id) ==
  IF RemoveRefused(m.pl) THEN m
  ELSE LET m1 == RemovePlaylist(m, id)
           next_id == NextId(m.pl, id)
           m2 == IF id = m1.act THEN SetActivePlaylist(m1, next_id) ELSE m1
           m3 == IF id = m2.cur THEN SetCurrentPlaylist(m2, next_id) ELSE m2
       IN IF m3.pc # "ready" THEN m3
          ELSE Emit(TakeAndDelete(m3, id), "PlaylistRemoved", id)

(***************************************************************************)
(* The calls forwarded to the current and to the active playlist           *)
(***************************************************************************)
\* Playlist::Clear(): no rows, nothing playing; the removed rows' persistent
\* indexes become invalid; PlaylistChanged() is emitted
Clear(m, id) ==
  OnPlaylistChanged([m EXCEPT !.pl[id].p = [items |-> <<>>, current_index |-> -1],
                              !.sel = Invalidate(@, id)])

\* Playlist::Shuffle(): the rows in the order perm; PlaylistChanged() is
\* emitted
Shuffle(m, id, perm) ==
  OnPlaylistChanged([m EXCEPT !.pl[id].p.items = [i \in 1 .. Len(@) |-> @[perm[i]]]])

ClearCurrent(m) ==
  IF ~contains(m.pl, m.cur) THEN Crash(m) ELSE Clear(m, m.cur)

ShuffleCurrent(m, perm) ==
  IF ~contains(m.pl, m.cur) THEN Crash(m) ELSE Shuffle(m, m.cur, perm)

\* active()->Playing(), Paused(), Stopped(), SetStreamMetadata(url, song)
ForwardToActive(m, call) ==
  IF ~contains(m.pl, m.act) THEN Crash(m) ELSE Emit(m, call, m.act)

ChangePlaylistOrder(m, ids) == Emit(m, "SetPlaylistOrder", ids)

SelectionChanged(m, selection) == UpdateSummaryText([m EXCEPT !.sel = selection])

(***************************************************************************)
(* SongsDiscovered                                                         *)
(***************************************************************************)
\* the loop over the playlists, were it to stop after the first playlist
UpdateItems_FirstOnly(pl, song) ==
  [id \in DOMAIN pl |->
     IF id = Min(DOMAIN pl)
     THEN [pl[id] EXCEPT !.p = SetMetadata(@, library_items_by_id(@, song.id), song)]
     ELSE pl[id]]

\* the two inner loops: every library item of song.id() in every playlist
UpdateItems(pl, song) ==
  [id \in DOMAIN pl |->
     [pl[id] EXCEPT !.p = SetMetadata(@, library_items_by_id(@, song.id), song)]]

RECURSIVE DiscoverAll(_, _)
DiscoverAll(pl, songs) ==
  IF songs = <<>> THEN pl ELSE DiscoverAll(UpdateItems(pl, Head(songs)), Tail(songs))

SongsDiscovered(m, songs) == [m EXCEPT !.pl = DiscoverAll(@, songs)]

(***************************************************************************)
(* Init                                                                    *)
(***************************************************************************)
\* playlist_backend->GetAllPlaylists(), as a list of ids, of a backend that
\* lists its playlists in the order of their ids
GetAllPlaylists(be) == Ascending(DOMAIN be.names)

RECURSIVE AddAll(_, _)
AddAll(m, ids) ==
  IF ids = <<>> THEN m
  ELSE AddAll(AddPlaylist(m, Head(ids), m.be.names[Head(ids)]), Tail(ids))

\* ids is what GetAllPlaylists returns, id is what CreatePlaylist returns if
\* it is called
InitManager(m, ids, id) ==
  LET m1 == AddAll(m, ids)
  IN IF DOMAIN m1.pl = {} THEN New(m1, DefaultName, <<>>, id) ELSE m1

(***************************************************************************)
(* The inputs of the operations.                                           *)
(***************************************************************************)
\* names a caller gives to New and Rename
Names == { <<"a">> }

\* the rows a playlist is given by its own interface (a drop from the
\* library, a stream that is added)
NewItems == { Item(FALSE, Song(1, 40)) }

\* the lists of songs New is called with
NewSongs == { <<>> }

\* what a SongsDiscovered signal of the library carries: songs with
\* different ids
Discovered == { <<Song(1, 65)>>, <<Song(2, 40), Song(1, 65)>> }

\* what the backend holds when the manager is initialised
StoredNames == { DefaultName }

StoredItems == { <<>> }

\* the backends that hold playlists with some of the ids `ids', each with
\* one of the lists of rows `contents'
BackendsOf(ids, contents) ==
  UNION { { [names |-> names, items |-> items] :
              names \in [S -> StoredNames], items \in [S -> contents] } :
          S \in SUBSET ids }

Backends == BackendsOf(Ids, StoredItems)

\* the files on disk when the manager is initialised
InitialFiles == { [f \in Filenames |-> <<>>] }

\* the id CreatePlaylist gives a new row of the playlists table: one more
\* than the largest id in the table
NextRowId(be) == IF DOMAIN be.names = {} THEN 1 ELSE MaxKey(DOMAIN be.names) + 1

\* what CreatePlaylist can return: the id of the new row, or -1
CreateResults(be) == { NextRowId(be), -1 }

\* the ranges and selections a view on a model of n rows can hold
Ranges(model, n) ==
  { r \in { Range(model, top, bottom) : top \in 0 .. n - 1, bottom \in 0 .. n - 1 } :
      r.top <= r.bottom }

\* the selections of rows lo .. n - 1: their ranges are apart and ascending
RECURSIVE SelectionsFrom(_, _, _)
SelectionsFrom(model, lo, n) ==
  { <<>> } \cup
  UNION { { <<r>> \o rest : rest \in SelectionsFrom(model, r.bottom + 1, n) } :
          r \in { x \in Ranges(model, n) : x.top >= lo } }

Selections(model, n) == SelectionsFrom(model, 0, n)

\* the orders of the tabs ChangePlaylistOrder is called with
PlaylistOrders(S) ==
  LET asc == Ascending(S)
  IN { asc, [i \in 1 .. Len(asc) |-> asc[Len(asc) + 1 - i]] }

Orders(n) == { f \in [1 .. n -> 1 .. n] : \A i, j \in 1 .. n : f[i] = f[j] => i = j }

\* the lists GetAllPlaylists can return: the playlists of the backend in the
\* order of the tabs, which is any order
Listings(be) ==
  LET asc == Ascending(DOMAIN be.names)
  IN { [i \in 1 .. Len(asc) |-> asc[f[i]]] : f \in Orders(Len(asc)) }

(***************************************************************************)
(* The state machine.                                                      *)
(***************************************************************************)
\* the manager at the start of an operation
Start ==
  [pc |-> pc, pl |-> playlists_, cur |-> current_, act |-> active_,
   sel |-> current_selection_, be |-> backend, files |-> files, log |-> <<>>]

\* the manager when the operation `call' returns
Return(m, call) ==
  /\ pc' = m.pc
  /\ playlists_' = m.pl
  /\ current_' = m.cur
  /\ active_' = m.act
  /\ current_selection_' = m.sel
  /\ backend' = m.be
  /\ files' = m.files
  /\ log' = m.log
  /\ op' = call

Call(name, arg) == [name |-> name, arg |-> arg]

\* PlaylistManager::PlaylistManager()
Constructed(be, fs) ==
  [pc |-> "constructed", pl |-> <<>>, cur |-> NoId, act |-> NoId, sel |-> <<>>,
   be |-> be, files |-> fs, log |-> <<>>]

\* the variables hold the manager m, which the operation `call' left
Holds(m, call) ==
  /\ pc = m.pc
  /\ playlists_ = m.pl
  /\ current_ = m.cur
  /\ active_ = m.act
  /\ current_selection_ = m.sel
  /\ backend = m.be
  /\ files = m.files
  /\ log = m.log
  /\ op = call

Init ==
  \E be \in Backends, fs \in InitialFiles :
    Holds(Constructed(be, fs), Call("PlaylistManager", <<>>))

\* the manager after Init() on a backend that holds playlists
Initialized(be, fs) ==
  InitManager([Constructed(be, fs) EXCEPT !.pc = "ready"], GetAllPlaylists(be), NextRowId(be))

DoInit ==
  /\ pc = "constructed"
  /\ \E ids \in Listings(backend), id \in CreateResults(backend) :
       Return(InitManager([Start EXCEPT !.pc = "ready"], ids, id), Call("Init", ids))

DoNew ==
  /\ pc = "ready"
  /\ NextRowId(backend) <= MaxId
  /\ \E name \in Names, songs \in NewSongs, id \in CreateResults(backend) :
       Return(New(Start, name, songs, id), Call("New", <<name, songs>>))

DoLoad ==
  /\ pc = "ready"
  /\ NextRowId(backend) <= MaxId
  /\ \E filename \in Filenames, id \in CreateResults(backend) :
       Return(Load(Start, filename, id), Call("Load", filename))

DoSave ==
  /\ pc = "ready"
  /\ \E id \in DOMAIN playlists_, filename \in Filenames :
       Return(Save(Start, id, filename), Call("Save", <<id, filename>>))

DoRename ==
  /\ pc = "ready"
  /\ \E id \in DOMAIN playlists_, new_name \in Names :
       Return(Rename(Start, id, new_name), Call("Rename", <<id, new_name>>))

DoRemove ==
  /\ pc = "ready"
  /\ \E id \in DOMAIN playlists_ :
       Return(Remove(Start, id), Call("Remove", id))

DoSetCurrentPlaylist ==
  /\ pc = "ready"
  /\ \E id \in DOMAIN playlists_ :
       Return(SetCurrentPlaylist(Start, id), Call("SetCurrentPlaylist", id))

DoSetActivePlaylist ==
  /\ pc = "ready"
  /\ \E id \in DOMAIN playlists_ :
       Return(SetActivePlaylist(Start, id), Call("SetActivePlaylist", id))

DoClearCurrent ==
  /\ pc = "ready"
  /\ Return(ClearCurrent(Start), Call("ClearCurrent", <<>>))

DoShuffleCurrent ==
  /\ pc = "ready"
  /\ \E perm \in Orders(IF contains(playlists_, current_)
                              THEN rowCount(playlists_[current_].p) ELSE 0) :
       Return(ShuffleCurrent(Start, perm), Call("ShuffleCurrent", <<>>))

DoSetActivePlaying ==
  /\ pc = "ready"
  /\ Return(ForwardToActive(Start, "Playing"), Call("SetActivePlaying", <<>>))

DoSetActivePaused ==
  /\ pc = "ready"
  /\ Return(ForwardToActive(Start, "Paused"), Call("SetActivePaused", <<>>))

DoSetActiveStopped ==
  /\ pc = "ready"
  /\ Return(ForwardToActive(Start, "Stopped"), Call("SetActiveStopped", <<>>))

DoSetActiveStreamMetadata ==
  /\ pc = "ready"
  /\ Return(ForwardToActive(Start, "SetStreamMetadata"),
            Call("SetActiveStreamMetadata", <<>>))

DoChangePlaylistOrder ==
  /\ pc = "ready"
  /\ \E ids \in PlaylistOrders(DOMAIN playlists_) :
       Return(ChangePlaylistOrder(Start, ids), Call("ChangePlaylistOrder", ids))

\* the view shows the current playlist: a selection is made of its rows
DoSelectionChanged ==
  /\ pc = "ready"
  /\ \E selection \in (IF contains(playlists_, current_)
                       THEN Selections(current_, rowCount(playlists_[current_].p))
                       ELSE { <<>> }) :
       Return(SelectionChanged(Start, selection), Call("SelectionChanged", selection))

DoSongsDiscovered ==
  /\ pc = "ready"
  /\ \E songs \in Discovered :
       Return(SongsDiscovered(Start, songs), Call("SongsDiscovered", songs))

\* a playlist is given a row through its own interface and emits
\* PlaylistChanged()
PlaylistInsertItem ==
  /\ pc = "ready"
  /\ \E id \in DOMAIN playlists_, item \in NewItems :
       /\ rowCount(playlists_[id].p) < MaxLen
       /\ Return(OnPlaylistChanged([Start EXCEPT !.pl[id].p.items = Append(@, item)]),
                 Call("Playlist::InsertItems", <<id, item>>))

\* the player makes a row of the active playlist the playing one
PlaylistSetCurrentIndex ==
  /\ pc = "ready"
  /\ contains(playlists_, active_)
  /\ \E row \in 0 .. rowCount(playlists_[active_].p) - 1 :
       Return(Emit([Start EXCEPT !.pl[active_].p.current_index = row],
                   "set_current_index", <<active_, row>>),
              Call("Playlist::set_current_index", <<active_, row>>))

Next ==
  \/ DoInit
  \/ DoNew
  \/ DoLoad
  \/ DoSave
  \/ DoRename
  \/ DoRemove
  \/ DoSetCurrentPlaylist
  \/ DoSetActivePlaylist
  \/ DoClearCurrent
  \/ DoShuffleCurrent
  \/ DoSetActivePlaying
  \/ DoSetActivePaused
  \/ DoSetActiveStopped
  \/ DoSetActiveStreamMetadata
  \/ DoChangePlaylistOrder
  \/ DoSelectionChanged
  \/ DoSongsDiscovered
  \/ PlaylistInsertItem
  \/ PlaylistSetCurrentIndex

Spec == Init /\ [][Next]_vars

(***************************************************************************)
(* UpdateSummaryText alone: the manager of one playlist, whose rows have   *)
(* any lengths, and every selection of its rows.                           *)
(***************************************************************************)
SeqsUpTo(S, n) == UNION { [1 .. k -> S] : k \in 0 .. n }

SummaryBackends ==
  { [names |-> (1 :> DefaultName), items |-> (1 :> rows)] :
      rows \in SeqsUpTo({ Item(FALSE, Song(1, length)) : length \in Lengths }, MaxRows) }

SummaryInit ==
  \E be \in SummaryBackends, fs \in InitialFiles :
    Holds(Initialized(be, fs), Call("Init", GetAllPlaylists(be)))

\* the summary depends on the rows and on the selection alone: each
\* selection is applied once to each playlist
SummaryNext == op.name = "Init" /\ DoSelectionChanged

SummarySpec == SummaryInit /\ [][SummaryNext]_vars

(***************************************************************************)
(* SongsDiscovered alone: playlists that hold library items and other      *)
(* items, with the cursors anywhere.                                       *)
(***************************************************************************)
SyncItems ==
  { <<>>,
    <<Item(TRUE, Song(1, 40)), Item(FALSE, Song(1, 40))>>,
    <<Item(TRUE, Song(2, 0)), Item(TRUE, Song(1, 40))>> }

SyncInit ==
  \E be \in BackendsOf(Ids, SyncItems), fs \in InitialFiles :
    /\ DOMAIN be.names # {}
    /\ Holds(Initialized(be, fs), Call("Init", GetAllPlaylists(be)))

SyncNext ==
  \/ DoSongsDiscovered
  \/ DoSetCurrentPlaylist
  \/ DoSetActivePlaylist

SyncSpec == SyncInit /\ [][SyncNext]_vars

(***************************************************************************)
(* Save followed by Load of the same file.                                 *)
(***************************************************************************)
SaveThenLoad(m, id, filename, new_id) == Load(Save(m, id, filename), filename, new_id)

DoSaveThenLoad ==
  /\ pc = "ready"
  /\ NextRowId(backend) <= MaxId
  /\ \E id \in DOMAIN playlists_, filename \in Filenames, new_id \in CreateResults(backend) :
       Return(SaveThenLoad(Start, id, filename, new_id),
              Call("Save;Load", <<id, filename>>))

RoundTripItems ==
  { <<>>,
    <<Item(FALSE, Song(2, 65))>>,
    <<Item(TRUE, Song(1, 40)), Item(FALSE, Song(2, 65))>>,
    <<Item(FALSE, Song(2, 65)), Item(TRUE, Song(1, 40))>> }

RoundTripInit ==
  \E be \in BackendsOf(Ids, RoundTripItems), fs \in InitialFiles :
    /\ DOMAIN be.names # {}
    /\ Holds(Initialized(be, fs), Call("Init", GetAllPlaylists(be)))

RoundTripNext == DoSaveThenLoad

RoundTripSpec == RoundTripInit /\ [][RoundTripNext]_vars

(***************************************************************************)
(* The summary and the cursor: playlists of two rows, the selection, the   *)
(* current playlist and the operations that change them.                   *)
(***************************************************************************)
SelectionItems ==
  { <<Item(FALSE, Song(1, 40))>>,
    <<Item(FALSE, Song(1, 40)), Item(FALSE, Song(1, 65))>> }

SelectionInit ==
  \E be \in BackendsOf(1 .. 2, SelectionItems), fs \in InitialFiles :
    /\ DOMAIN be.names # {}
    /\ Holds(Initialized(be, fs), Call("Init", GetAllPlaylists(be)))

SelectionNext ==
  \/ DoSelectionChanged
  \/ DoSetCurrentPlaylist
  \/ DoNew
  \/ DoRemove
  \/ DoClearCurrent
  \/ DoShuffleCurrent
  \/ PlaylistInsertItem

SelectionSpec == SelectionInit /\ [][SelectionNext]_vars

(***************************************************************************)
(* New with songs: the manager from its construction on, New called with   *)
(* and without songs, and the operations that move the cursors, remove     *)
(* playlists and set the selection.                                        *)
(***************************************************************************)
CreateSongs == { <<>>, <<Song(2, 65), Song(1, 40)>> }

DoNewOfSongs ==
  /\ pc = "ready"
  /\ NextRowId(backend) <= MaxId
  /\ \E name \in Names, songs \in CreateSongs, id \in CreateResults(backend) :
       Return(New(Start, name, songs, id), Call("New", <<name, songs>>))

CreateNext ==
  \/ DoInit
  \/ DoNewOfSongs
  \/ DoRemove
  \/ DoSetCurrentPlaylist
  \/ DoSetActivePlaylist
  \/ DoSelectionChanged

CreateSpec == Init /\ [][CreateNext]_vars

(***************************************************************************)
(* Init and Rename: backends whose playlists have different names, listed  *)
(* in any order, and the cursors anywhere.                                 *)
(***************************************************************************)
InitNames == { DefaultName, <<"b">> }

InitBackends ==
  UNION { { [names |-> names, items |-> [id \in S |-> <<>>]] : names \in [S -> InitNames] } :
          S \in SUBSET Ids }

InitInit ==
  \E be \in InitBackends, fs \in InitialFiles :
    Holds(Constructed(be, fs), Call("PlaylistManager", <<>>))

InitNext ==
  \/ DoInit
  \/ DoRename
  \/ DoSetCurrentPlaylist
  \/ DoSetActivePlaylist

InitSpec == InitInit /\ [][InitNext]_vars

(***************************************************************************)
(* The properties.                                                         *)
(***************************************************************************)
Initialized_ == pc = "ready"

\* the last operation was Remove and it went past the test of the count:
\* its first effect is the call of the backend, made when the cursors were
\* still as the caller left them
Removed == op.name = "Remove" /\ log # <<>> /\ log[1].ev = "RemovePlaylist"

\* C1: once Init has returned, after any calls of New, Load, Rename, Remove,
\* SetCurrentPlaylist, SetActivePlaylist and ChangePlaylistOrder with ids
\* that are keys of playlists_, current_ and active_ are keys of playlists_.
C1_CursorsAreKeys ==
  Initialized_ => current_ \in DOMAIN playlists_ /\ active_ \in DOMAIN playlists_

\* C2: when Remove(id) returns and playlists_ held at least two playlists,
\* active_ (current_) is not id and is a key of playlists_ if it was id when
\* Remove was called, whatever the place of id among the keys.
C2_RemoveMovesCursor ==
  (Removed /\ Initialized_) =>
     /\ log[1].at.active = op.arg =>
          active_ # op.arg /\ active_ \in DOMAIN playlists_
     /\ log[1].at.current = op.arg =>
          current_ # op.arg /\ current_ \in DOMAIN playlists_

\* C3: once Init has returned, playlists_ is never empty: Init creates a
\* playlist if the backend has none, and Remove never takes the last one.
C3_NeverEmpty == Initialized_ => DOMAIN playlists_ # {}

\* Remove was called on the only playlist
C3_Witness ==
  /\ Initialized_
  /\ op.name = "Remove"
  /\ DOMAIN playlists_ = { op.arg }

\* C4: Remove(id) on the only playlist changes nothing: playlists_ (keys and
\* names), current_, active_ and current_selection_ stay, the backend is not
\* called and no signal is emitted.
C4_RemoveLastChangesNothing ==
  [][(op'.name = "Remove" /\ Initialized_ /\ Cardinality(DOMAIN playlists_) = 1) =>
       /\ UNCHANGED <<pc, playlists_, current_, active_, current_selection_,
                      backend, files>>
       /\ log' = <<>>]_vars

\* Remove was called on the only playlist while rows of it were selected
C4_Witness ==
  /\ Initialized_
  /\ op.name = "Remove"
  /\ DOMAIN playlists_ = { op.arg }
  /\ log = <<>>
  /\ current_selection_ # <<>>
  /\ current_ = op.arg
  /\ active_ = op.arg

\* the playlist that was active before the i-th effect of a step, an
\* ActiveChanged: the one the ActiveChanged before it announced, or the one
\* the step started with
ActiveBefore(i) ==
  LET earlier == { j \in 1 .. i - 1 : log'[j].ev = "ActiveChanged" }
  IN IF earlier = {} THEN active_ ELSE log'[MaxKey(earlier)].arg

\* C5: whenever SetActivePlaylist(id) runs with another playlist active, by
\* a direct call or inside Remove, the playing row of the old active
\* playlist is unset before active_ is assigned and before ActiveChanged is
\* emitted: when ActiveChanged is observed the old playlist has no playing
\* row.
C5_OldActiveUnsetFirst ==
  [][\A i \in 1 .. Len(log') :
       (/\ log'[i].ev = "ActiveChanged"
        /\ ActiveBefore(i) # NoId
        /\ ActiveBefore(i) # log'[i].arg) =>
          /\ i > 1
          /\ log'[i - 1].ev = "set_current_index"
          /\ log'[i - 1].arg = <<ActiveBefore(i), -1>>
          /\ log'[i - 1].at.current_index[ActiveBefore(i)] = -1
          /\ log'[i - 1].at.active = ActiveBefore(i)
          /\ log'[i].at.active = log'[i].arg
          /\ log'[i].at.current_index[ActiveBefore(i)] = -1]_vars

\* Remove of the active playlist made another playlist the active one
C5_Witness ==
  /\ op.name = "Remove"
  /\ \E i \in 2 .. Len(log) :
       /\ log[i].ev = "ActiveChanged"
       /\ log[i].arg # op.arg
       /\ log[i - 1].ev = "set_current_index"
       /\ log[i - 1].arg = <<op.arg, -1>>
       /\ log[1].at.current_index[op.arg] # -1

\* C6: Load(filename) of a file of which the parser returns no song emits
\* one Error that carries the base name of the file and changes nothing:
\* CreatePlaylist is not called, playlists_, current_ and active_ stay, and
\* no PlaylistAdded, CurrentChanged or SummaryTextChanged is emitted.
C6_LoadOfNothing ==
  [][(op'.name = "Load" /\ ParserLoad(files, op'.arg) = <<>>) =>
       /\ UNCHANGED <<pc, playlists_, current_, active_, current_selection_,
                      backend, files>>
       /\ Len(log') = 1
       /\ log'[1].ev = "Error"
       /\ log'[1].arg = completeBaseName(op'.arg)]_vars

\* Load was called on a file without songs
C6_Witness ==
  /\ op.name = "Load"
  /\ files[op.arg] = <<>>
  /\ Len(log) = 1
  /\ log[1].ev = "Error"
  /\ log[1].arg = <<"a", "b">>

\* the playlists the last operation added
Added == { log[i].arg[1] : i \in { j \in 1 .. Len(log) : log[j].ev = "PlaylistAdded" } }

\* the songs of the rows of a playlist, in the order of the rows
SongsOf(id) == [i \in 1 .. Len(playlists_[id].p.items) |-> playlists_[id].p.items[i].song]

\* Save(id, filename) and then Load(filename) have returned
RoundTripDone == op.name = "Save;Load" /\ Initialized_

\* C7, as claimed: for every playlist id and every list of rows it holds,
\* the empty one too, Save(id, filename) followed by Load(filename) adds a
\* playlist that has as many songs as the rows of id, in the same order.
C7_RoundTrip ==
  RoundTripDone =>
    \E new \in Added : new # op.arg[1] /\ SongsOf(new) = SongsOf(op.arg[1])

\* C7, amended: the same for every playlist that holds at least one row;
\* the round trip of a playlist without rows adds no playlist and emits
\* Error.
C7_RoundTripOfRows ==
  RoundTripDone =>
    IF SongsOf(op.arg[1]) # <<>>
    THEN /\ Cardinality(Added) = 1
         /\ \A new \in Added : new # op.arg[1] /\ SongsOf(new) = SongsOf(op.arg[1])
    ELSE /\ Added = {}
         /\ Len(log) = 1
         /\ log[1].ev = "Error"

\* a playlist of two different songs, which is not the current one, made
\* the round trip
C7_Witness ==
  /\ RoundTripDone
  /\ op.arg[1] # log[1].at.current
  /\ Len(SongsOf(op.arg[1])) = 2
  /\ SongsOf(op.arg[1])[1] # SongsOf(op.arg[1])[2]
  /\ \E new \in Added : SongsOf(new) = SongsOf(op.arg[1])

\* C8: on SongsDiscovered(songs) every library item of every playlist,
\* current, active or neither, that references the id of a discovered song
\* holds that song afterwards, every other item is as it was, and a second
\* delivery of the same songs changes no item.
C8_Discovery ==
  [][op'.name = "SongsDiscovered" =>
       /\ DOMAIN playlists_' = DOMAIN playlists_
       /\ \A id \in DOMAIN playlists_ :
            LET old == playlists_[id].p.items
                new == playlists_'[id].p.items
            IN /\ Len(new) = Len(old)
               /\ \A i \in 1 .. Len(old) :
                    LET found == { k \in 1 .. Len(op'.arg) :
                                     old[i].lib /\ op'.arg[k].id = old[i].song.id }
                    IN IF found = {} THEN new[i] = old[i]
                       ELSE \A k \in found : new[i] = Item(TRUE, op'.arg[k])
       /\ (op.name = "SongsDiscovered" /\ op.arg = op'.arg) => playlists_' = playlists_]_vars

\* a playlist that is neither current nor active holds a library item with
\* the discovered song and another item of the same id that kept its song
C8_Witness ==
  /\ op.name = "SongsDiscovered"
  /\ \E id \in DOMAIN playlists_ \ { current_, active_ } :
       \E i, j \in 1 .. Len(playlists_[id].p.items) :
         LET items == playlists_[id].p.items
         IN /\ items[i].lib
            /\ \E k \in 1 .. Len(op.arg) : items[i].song = op.arg[k]
            /\ ~items[j].lib
            /\ items[j].song.id = items[i].song.id
            /\ items[j].song # items[i].song

\* the sum of val over the set S
RECURSIVE SumOver(_, _)
SumOver(S, val) ==
  IF S = {} THEN 0
  ELSE LET x == CHOOSE y \in S : TRUE IN val[x] + SumOver(S \ {x}, val)

\* the rows a list of ranges selects: <<k, model, row>> for the rows of the
\* k-th range
RowsOf(ranges) ==
  UNION { { <<k, ranges[k].model, i>> : i \in ranges[k].top .. ranges[k].bottom } :
          k \in 1 .. Len(ranges) }

\* the seconds of the rows `rows', of which `length' gives the lengths per
\* playlist: a row counts if its length is positive
SecondsOf(rows, length) ==
  SumOver({ r \in rows : length[r[2]][r[3] + 1] > 0 },
          [r \in rows |-> length[r[2]][r[3] + 1]])

\* the seconds of all the rows of a playlist
TotalOf(lengths) ==
  SumOver({ i \in 1 .. Len(lengths) : lengths[i] > 0 }, lengths)

\* the duration the summary is to show for the selection `ranges'
DurationOf(ranges, at) ==
  IF Cardinality(RowsOf(ranges)) > 1 THEN SecondsOf(RowsOf(ranges), at.length)
  ELSE TotalOf(at.length[at.current])

Summaries == { i \in 1 .. Len(log) : log[i].ev = "SummaryTextChanged" }

\* C9: the duration of the summary is, if more than one row is selected,
\* the sum of the lengths of the selected rows that are positive, and else
\* the total length of the current playlist, whatever is selected.  Three
\* selected rows of 40, 0 and 65 seconds in a playlist of five rows give
\* "3 selected of" and 105 seconds.
C9_Duration ==
  \A i \in Summaries :
    LET seconds == DurationOf(log[i].at.selection, log[i].at)
    IN log[i].arg.duration = IF seconds = 0 THEN <<>> ELSE <<seconds>>

\* the first three of five rows are selected, of 40, 0 and 65 seconds
C9_Witness ==
  /\ op.name = "SelectionChanged"
  /\ op.arg = <<Range(current_, 0, 2)>>
  /\ \E i \in Summaries :
       /\ Len(log[i].at.length[current_]) = 5
       /\ SubSeq(log[i].at.length[current_], 1, 3) = <<40, 0, 65>>
       /\ log[i].at.length[current_][4] > 0
       /\ log[i].arg.selected_of = <<3>>
       /\ log[i].arg.tracks = <<5, "tracks">>
       /\ log[i].arg.duration = <<105>>

\* the ranges of a selection that are ranges of the playlist `model'
RangesOn(selection, model) ==
  LET on == { k \in 1 .. Len(selection) : selection[k].model = model }
  IN [k \in 1 .. Cardinality(on) |->
        selection[CHOOSE j \in on : Cardinality({ x \in on : x < j }) = k - 1]]

\* the summary of the playlist current_ points to: the number of its rows,
\* and the number and the duration of those of its rows that are selected
SummaryOfCurrent(at) ==
  LET own == RangesOn(at.selection, at.current)
      selected == Cardinality(RowsOf(own))
      tracks == Len(at.length[at.current])
      seconds == DurationOf(own, at)
  IN [selected_of |-> IF selected > 1 THEN <<selected>> ELSE <<>>,
      tracks |-> IF tracks = 1 THEN <<1, "track">> ELSE <<tracks, "tracks">>,
      duration |-> IF seconds = 0 THEN <<>> ELSE <<seconds>>]

\* C10: every SummaryTextChanged describes the playlist current_ points to
\* when it is emitted: the number of tracks, the number of selected rows and
\* their duration come from rows of that playlist, whatever calls of
\* SelectionChanged, SetCurrentPlaylist, New and Remove and whatever changes
\* of rows came before; the selection never adds rows of another playlist.
C10_SummaryOfCurrent ==
  \A i \in Summaries : log[i].arg = SummaryOfCurrent(log[i].at)

\* the last step was New(name, songs), called directly or by Init for the
\* default playlist, and it returned
Created ==
  /\ pc' = "ready"
  /\ \/ op'.name = "New"
     \/ op'.name = "Init" /\ op'.arg = <<>>

CreatedName == IF op'.name = "New" THEN op'.arg[1] ELSE DefaultName

CreatedSongs == IF op'.name = "New" THEN op'.arg[2] ELSE <<>>

\* C11: after New(name, songs) has returned, the backend having given an
\* id, playlists_ holds that id with the name, the playlist holds the songs
\* in their order, current_ is the id, every playlist that was in playlists_
\* is still there, and active_ is as it was unless it was -1.
C11_New ==
  [][Created =>
       LET new == DOMAIN backend'.names \ DOMAIN backend.names
       IN /\ Cardinality(new) = 1
          /\ \A id \in new :
               /\ id \notin DOMAIN playlists_
               /\ id \in DOMAIN playlists_'
               /\ playlists_'[id].name = CreatedName
               /\ backend'.names[id] = CreatedName
               /\ GetAllSongs(playlists_'[id].p) = CreatedSongs
               /\ current_' = id
               /\ active_' = IF active_ = NoId THEN id ELSE active_
          /\ DOMAIN playlists_' = DOMAIN playlists_ \cup new
          /\ \A k \in DOMAIN playlists_ : playlists_'[k].name = playlists_[k].name]_vars

\* New was called with two songs while several playlists existed and the
\* active one was not the current one
C11_Witness ==
  /\ op.name = "New"
  /\ pc = "ready"
  /\ Len(op.arg[2]) = 2
  /\ op.arg[2][1] # op.arg[2][2]
  /\ Cardinality(DOMAIN playlists_) = 3
  /\ current_ \in Added
  /\ current_ \in DOMAIN playlists_
  /\ GetAllSongs(playlists_[current_].p) = op.arg[2]
  /\ active_ \in DOMAIN playlists_ \ Added
  /\ log[1].at.current # log[1].at.active

\* in the last step CreatePlaylist was called and gave no id: the backend
\* holds no more names after the call than before
CreateRefused ==
  \E i \in 1 .. Len(log') :
    log'[i].ev = "CreatePlaylist" /\ log'[i].at.backend_names = backend.names

\* C12, as claimed: the process is ended for want of an id only while Init
\* creates the default playlist; no New and no Load that is called after
\* Init has returned ends it.
C12_FatalAtStartupOnly == pc = "fatal" => op.name = "Init"

\* C12, amended: the process is ended for want of an id whenever
\* CreatePlaylist gives -1 and only then: in Init on a backend without
\* playlists, in every New and in every Load of a file with songs, also
\* after Init has returned.  Nothing was changed by then.  Init on a backend
\* with playlists, Load of a file without songs and the other operations
\* never end it.
C12_FatalInEveryNew ==
  [][/\ (pc' = "fatal") <=> CreateRefused
     /\ CreateRefused =>
          /\ op'.name \in {"Init", "New", "Load"}
          /\ log'[Len(log')].ev = "CreatePlaylist"
          /\ UNCHANGED <<playlists_, current_, active_, current_selection_, backend, files>>
     /\ (op'.name = "Init" /\ op'.arg # <<>>) => pc' # "fatal"
     /\ (op'.name = "Load" /\ ParserLoad(files, op'.arg) = <<>>) => pc' # "fatal"
     /\ op'.name \notin {"Init", "New", "Load"} => pc' # "fatal"]_vars

\* Load of a file with songs, called after Init had returned, ended the
\* process
C12_Witness ==
  /\ pc = "fatal"
  /\ op.name = "Load"
  /\ files[op.arg] # <<>>
  /\ DOMAIN playlists_ # {}
  /\ current_ \in DOMAIN playlists_

\* the effects of the last operation that are `ev', in their order
EventsOf(ev) == SelectSeq(log, LAMBDA e : e.ev = ev)

\* C13: after Init on a backend that lists n playlists: if n >= 1,
\* playlists_ holds the listed ids with their names and no other, one
\* PlaylistAdded is emitted per listed playlist, CreatePlaylist is not
\* called, and current_ and active_ are the first id of the list, set once;
\* if n = 0, CreatePlaylist is called once, with the name "Playlist", and
\* playlists_ holds that playlist alone, which is current and active.
C13_Init ==
  op.name = "Init" =>
    LET listed == op.arg
    IN IF listed # <<>>
       THEN /\ pc = "ready"
            /\ DOMAIN playlists_ = { listed[i] : i \in 1 .. Len(listed) }
            /\ DOMAIN backend.names = DOMAIN playlists_
            /\ \A id \in DOMAIN playlists_ : playlists_[id].name = backend.names[id]
            /\ Len(EventsOf("PlaylistAdded")) = Len(listed)
            /\ \A i \in 1 .. Len(listed) :
                 EventsOf("PlaylistAdded")[i].arg = <<listed[i], backend.names[listed[i]]>>
            /\ EventsOf("CreatePlaylist") = <<>>
            /\ current_ = listed[1]
            /\ active_ = listed[1]
            /\ Len(EventsOf("CurrentChanged")) = 1
            /\ Len(EventsOf("ActiveChanged")) = 1
       ELSE /\ Len(EventsOf("CreatePlaylist")) = 1
            /\ EventsOf("CreatePlaylist")[1].arg = DefaultName
            /\ pc = "ready" =>
                 \E id \in Ids :
                   /\ DOMAIN playlists_ = {id}
                   /\ playlists_[id].name = DefaultName
                   /\ backend.names = (id :> DefaultName)
                   /\ current_ = id
                   /\ active_ = id

\* Init on a backend that lists three playlists, of which the first is
\* neither the one with the smallest nor the one with the largest id, and
\* has another name than the last
C13_Witness ==
  /\ op.name = "Init"
  /\ Len(op.arg) = 3
  /\ op.arg[1] = 2
  /\ current_ = 2
  /\ active_ = 2
  /\ playlists_[op.arg[1]].name # playlists_[op.arg[3]].name

\* C14: Rename(id, new_name) of a playlist of playlists_ changes the name
\* of id in the backend and in playlists_ and nothing else: the keys, the
\* other names, the rows of every playlist, current_ and active_ stay; one
\* PlaylistRenamed(id, new_name) is emitted and no other signal, and when it
\* is emitted the backend and playlists_ both hold new_name.
C14_Rename ==
  [][op'.name = "Rename" =>
       LET id == op'.arg[1]
           new_name == op'.arg[2]
           renamed == { i \in 1 .. Len(log') : log'[i].ev = "PlaylistRenamed" }
       IN /\ DOMAIN playlists_' = DOMAIN playlists_
          /\ \A k \in DOMAIN playlists_ :
               /\ playlists_'[k].p = playlists_[k].p
               /\ playlists_'[k].name = IF k = id THEN new_name ELSE playlists_[k].name
          /\ DOMAIN backend'.names = DOMAIN backend.names
          /\ \A k \in DOMAIN backend.names :
               backend'.names[k] = IF k = id THEN new_name ELSE backend.names[k]
          /\ backend'.items = backend.items
          /\ UNCHANGED <<pc, current_, active_, current_selection_, files>>
          /\ Cardinality(renamed) = 1
          /\ \A i \in 1 .. Len(log') : log'[i].ev \in {"RenamePlaylist", "PlaylistRenamed"}
          /\ \A i \in renamed :
               /\ log'[i].arg = <<id, new_name>>
               /\ log'[i].at.names[id] = new_name
               /\ log'[i].at.backend_names[id] = new_name
               /\ log'[i].at.names = log'[i].at.backend_names]_vars

\* one of three playlists was given a new name, another than the names of
\* the two others, while it was neither current nor active
C14_Witness ==
  /\ op.name = "Rename"
  /\ Cardinality(DOMAIN playlists_) = 3
  /\ log[1].ev = "RenamePlaylist"
  /\ log[1].at.names[op.arg[1]] # op.arg[2]
  /\ \A k \in DOMAIN playlists_ \ { op.arg[1] } : playlists_[k].name # op.arg[2]
  /\ \E k \in DOMAIN playlists_ : playlists_[k].name = <<"b">>
  /\ current_ # op.arg[1]
  /\ active_ # op.arg[1]
  /\ current_ # active_

\* the names of the effects of the last step that are calls of the backend
\* or signals of the manager, in their order
RemoveEffects ==
  LET of == { i \in 1 .. Len(log') :
                log'[i].ev \in {"RemovePlaylist", "ActiveChanged", "CurrentChanged",
                                "SummaryTextChanged", "PlaylistRemoved"} }
  IN [k \in 1 .. Cardinality(of) |->
        log'[CHOOSE i \in of : Cardinality({ j \in of : j < i }) = k - 1].ev]

\* C15: Remove(id) with at least two playlists in playlists_ has its effects
\* in this order: RemovePlaylist(id) of the backend, ActiveChanged if id was
\* active, CurrentChanged and then SummaryTextChanged if id was current, the
\* taking of id out of playlists_, and one PlaylistRemoved(id), at which id
\* is no key of playlists_ and every other playlist still is.
C15_RemoveOrder ==
  [][(op'.name = "Remove" /\ pc = "ready" /\ Cardinality(DOMAIN playlists_) >= 2) =>
       LET id == op'.arg
       IN /\ RemoveEffects =
               <<"RemovePlaylist">>
               \o (IF active_ = id THEN <<"ActiveChanged">> ELSE <<>>)
               \o (IF current_ = id THEN <<"CurrentChanged", "SummaryTextChanged">> ELSE <<>>)
               \o <<"PlaylistRemoved">>
          /\ log'[1].ev = "RemovePlaylist"
          /\ log'[1].arg = id
          /\ \A i \in 1 .. Len(log') :
               IF log'[i].ev = "PlaylistRemoved"
               THEN log'[i].arg = id /\ log'[i].at.ids = DOMAIN playlists_ \ {id}
               ELSE log'[i].at.ids = DOMAIN playlists_]_vars

\* the effects of the last step that are `ev'
Emitted(ev) == { i \in 1 .. Len(log') : log'[i].ev = ev }

\* in the last step a playlist of playlists_ emitted PlaylistChanged(): a
\* row was added to it, or it was the current playlist and was cleared or
\* shuffled, or New inserted songs into it
RaisedPlaylistChanged ==
  \/ op'.name = "Playlist::InsertItems"
  \/ op'.name \in {"ClearCurrent", "ShuffleCurrent"} /\ current_ \in DOMAIN playlists_
  \/ op'.name = "New" /\ op'.arg[2] # <<>> /\ Emitted("PlaylistAdded") # {}

\* C16: each PlaylistChanged() of a playlist of playlists_, current or not,
\* also when ClearCurrent, ShuffleCurrent or the insertion of songs in New
\* causes it, makes the manager emit one PlaylistChanged and then one
\* SummaryTextChanged.
C16_PlaylistChanged ==
  [][pc = "ready" =>
       /\ RaisedPlaylistChanged => Cardinality(Emitted("PlaylistChanged")) = 1
       /\ \A i \in Emitted("PlaylistChanged") :
            /\ i + 1 \in Emitted("SummaryTextChanged")
            /\ i + 2 \notin Emitted("SummaryTextChanged")
       /\ (RaisedPlaylistChanged /\ op'.name # "New") =>
            Cardinality(Emitted("SummaryTextChanged")) = 1]_vars

\* C17: SetCurrentPlaylist(id) of a playlist of playlists_ makes current_
\* id, leaves active_, playlists_ and current_selection_ and emits
\* CurrentChanged and then one SummaryTextChanged; SetActivePlaylist(id)
\* makes active_ id, leaves current_, the keys and names of playlists_ and
\* current_selection_ and emits ActiveChanged and no SummaryTextChanged.
C17_SetCursors ==
  [][/\ (op'.name = "SetCurrentPlaylist" /\ pc = "ready") =>
          /\ current_' = op'.arg
          /\ UNCHANGED <<active_, playlists_, current_selection_>>
          /\ Len(log') = 2
          /\ log'[1].ev = "CurrentChanged"
          /\ log'[1].arg = op'.arg
          /\ log'[2].ev = "SummaryTextChanged"
     /\ (op'.name = "SetActivePlaylist" /\ pc = "ready") =>
          /\ active_' = op'.arg
          /\ UNCHANGED <<current_, current_selection_>>
          /\ DOMAIN playlists_' = DOMAIN playlists_
          /\ \A k \in DOMAIN playlists_ : playlists_'[k].name = playlists_[k].name
          /\ Cardinality(Emitted("ActiveChanged")) = 1
          /\ \A i \in Emitted("ActiveChanged") : log'[i].arg = op'.arg /\ i = Len(log')
          /\ Emitted("SummaryTextChanged") = {}
          /\ Emitted("CurrentChanged") = {}]_vars

\* C18: in every summary UpdateSummaryText emits, "selected of" is there
\* exactly if more than one row is selected, the duration is there exactly
\* if the duration that was computed is not zero (several selected rows
\* without a positive length give no duration, whatever the total length of
\* the playlist), and the number of tracks is in the singular exactly if it
\* is 1 ("0 tracks").
C18_Clauses ==
  \A i \in Summaries :
    LET at == log[i].at
        text == log[i].arg
        selected == Cardinality(RowsOf(at.selection))
        T == Len(at.length[at.current])
    IN /\ (text.selected_of # <<>>) <=> (selected > 1)
       /\ text.selected_of # <<>> => text.selected_of = <<selected>>
       /\ (text.duration # <<>>) <=> (DurationOf(at.selection, at) # 0)
       /\ (selected > 1 /\ SecondsOf(RowsOf(at.selection), at.length) = 0)
            => text.duration = <<>>
       /\ text.tracks[1] = T
       /\ (text.tracks[2] = "track") <=> (T = 1)
       /\ T # 1 => text.tracks[2] = "tracks"

\* two rows without a positive length are selected in a playlist that has
\* a row with one: the summary has "selected of" and no duration
C18_Witness ==
  /\ op.name = "SelectionChanged"
  /\ \E i \in Summaries :
       /\ Cardinality(RowsOf(log[i].at.selection)) = 2
       /\ TotalOf(log[i].at.length[current_]) > 0
       /\ log[i].arg.selected_of = <<2>>
       /\ log[i].arg.duration = <<>>
       /\ log[i].arg.tracks = <<3, "tracks">>

\* C19: Remove(id) of a playlist that is neither current nor active, with
\* at least two playlists in playlists_, leaves current_ and active_, unsets
\* no playing row and emits no ActiveChanged, CurrentChanged or
\* SummaryTextChanged: after the call of the backend, PlaylistRemoved(id) is
\* all that is emitted.
C19_RemoveOther ==
  [][(/\ op'.name = "Remove"
      /\ pc = "ready"
      /\ Cardinality(DOMAIN playlists_) >= 2
      /\ op'.arg # current_
      /\ op'.arg # active_) =>
       /\ UNCHANGED <<pc, current_, active_>>
       /\ Len(log') = 2
       /\ log'[1].ev = "RemovePlaylist"
       /\ log'[2].ev = "PlaylistRemoved"
       /\ log'[2].arg = op'.arg
       /\ DOMAIN playlists_' = DOMAIN playlists_ \ { op'.arg }
       /\ \A k \in DOMAIN playlists_' : playlists_'[k] = playlists_[k]]_vars

\* a playlist was removed while another was current and a third, with a
\* playing row, was active
C19_Witness ==
  /\ op.name = "Remove"
  /\ pc = "ready"
  /\ Len(log) = 2
  /\ log[2].ev = "PlaylistRemoved"
  /\ current_ \in DOMAIN playlists_
  /\ active_ \in DOMAIN playlists_
  /\ current_ # active_
  /\ playlists_[active_].p.current_index # -1

\* the playing rows before the i-th effect of a step
MarkersBefore(i) ==
  IF i = 1 THEN [k \in DOMAIN playlists_ |-> playlists_[k].p.current_index]
  ELSE log'[i - 1].at.current_index

\* C20: SetActivePlaylist(id) with id the active playlist unsets no playing
\* row, that of the active playlist neither, and emits one ActiveChanged;
\* the first SetActivePlaylist, made while active_ is -1, unsets no playing
\* row either.
C20_SameActive ==
  [][/\ \A i \in Emitted("ActiveChanged") :
          ActiveBefore(i) \in { NoId, log'[i].arg } =>
            /\ i > 1 => log'[i - 1].ev # "set_current_index"
            /\ log'[i].at.current_index = MarkersBefore(i)
     /\ (op'.name = "SetActivePlaylist" /\ pc = "ready" /\ op'.arg = active_) =>
          /\ Len(log') = 1
          /\ log'[1].ev = "ActiveChanged"
          /\ log'[1].arg = op'.arg
          /\ UNCHANGED <<pc, playlists_, current_, active_>>
     /\ (op'.name = "Init" /\ pc' = "ready") =>
          /\ Emitted("set_current_index") = {}
          /\ Cardinality(Emitted("ActiveChanged")) = 1]_vars

\* SetActivePlaylist was called with the active playlist, which has a
\* playing row
C20_Witness ==
  /\ op.name = "SetActivePlaylist"
  /\ pc = "ready"
  /\ op.arg = active_
  /\ Len(log) = 1
  /\ log[1].ev = "ActiveChanged"
  /\ active_ \in DOMAIN playlists_
  /\ playlists_[active_].p.current_index # -1
  /\ log[1].at.current_index[active_] # -1

====
